---- MODULE Spec2Model ----
(***************************************************************************)
(* Astikar portfolio system: the weekly rebalancing cycle of               *)
(*   src/astikar_engine.py                 (prog = "engine")               *)
(*   src/Astikar_Portfolio_Manager_Pro.py  (prog = "pro")                  *)
(* One cycle is main(): fetch prices, regime gate, crash gate, momentum    *)
(* ranking, order generation against the persisted position book, and the  *)
(* persistence steps.  Python floats are modelled as exact rationals       *)
(* <<n, d>> (d > 0, lowest terms); NaN is the empty tuple.                 *)
(***************************************************************************)
EXTENDS Integers, Sequences, FiniteSets, TLC

VARIABLES
    prog,            \* which program runs: "engine" or "pro"
    pc,              \* position of main() in the current cycle
    result,          \* how the cycle ended: "none", "cash", "ok", "error"
    positions_file,  \* POSITIONS_FILE on disk: [exists, rows]
    equity_file,     \* number of rows of EQUITY_FILE (engine)
    report_files,    \* number of weekly_orders_*.csv reports (pro)
    data,            \* main's price frame
    selected,        \* the candidate list returned by generate_portfolio
    positions,       \* generate_orders' working frame: [cols, rows]
    orders,          \* generate_orders' order list
    total_equity,    \* the engine's equity summary of this cycle
    telegram,        \* the notification sent in this cycle
    exception,       \* the exception that ended the cycle, "none" if none
    wrote,           \* the durable outputs this cycle has written
    start,           \* the durable state when the cycle started
    universe,        \* the tickers listed in UNIVERSE_FILE
    market,          \* the epoch of the price source: it grows when prices move
    fetched,         \* the epoch each download of this cycle has read
    series,          \* an index series handed to the two filters
    verdict,         \* what the two filters returned for it
    life             \* per ticker, where the orders of the successful cycles
                     \* so far have left its position lifecycle

vars == <<prog, pc, result, positions_file, equity_file, report_files, data,
          selected, positions, orders, total_equity, telegram, exception,
          wrote, start, universe, market, fetched, series, verdict, life>>

\* what no step of main changes
fixed == <<prog, universe, series, verdict, life>>

(* ------------------------------ CONFIG -------------------------------- *)
CAPITAL == 50000
TOP_N == 10
LOOKBACK_WEEKS == 12
MAX_ADDS == 2
MAX_POSITION_MULTIPLIER == 2
REGIME_MA == 200
CRASH_LOOKBACK == 63
CRASH_THRESHOLD == <<-12, 100>>

(* ------------------------------ bounds -------------------------------- *)
\* successful cycles (equity rows written by the engine, completed runs of
\* the manager) after which no further cycle is started
MaxRuns == 4

\* times the price source moves to a new epoch
MaxTicks == 1

(* --------------------------- float arithmetic ------------------------- *)
NaN == <<>>

IsNaN(x) == x = NaN

Abs(n) == IF n < 0 THEN -n ELSE n

RECURSIVE Gcd(_, _)
Gcd(a, b) == IF b = 0 THEN a ELSE Gcd(b, a % b)

\* the rational n/d in lowest terms with a positive denominator
Rat(n, d) ==
    LET s == IF d < 0 THEN -1 ELSE 1
        g == Gcd(Abs(n), Abs(d))
    IN  <<(s * n) \div g, (s * d) \div g>>

R(n) == <<n, 1>>

\* IEEE arithmetic: every operation on a NaN operand gives NaN
FAdd(x, y) == IF IsNaN(x) \/ IsNaN(y) THEN NaN
              ELSE Rat(x[1] * y[2] + y[1] * x[2], x[2] * y[2])

FSub(x, y) == IF IsNaN(x) \/ IsNaN(y) THEN NaN
              ELSE Rat(x[1] * y[2] - y[1] * x[2], x[2] * y[2])

FMul(x, y) == IF IsNaN(x) \/ IsNaN(y) THEN NaN
              ELSE Rat(x[1] * y[1], x[2] * y[2])

\* division; callers guard the zero divisor (Python raises ZeroDivisionError)
FDiv(x, y) == IF IsNaN(x) \/ IsNaN(y) THEN NaN
              ELSE Rat(x[1] * y[2], x[2] * y[1])

IsZero(x) == ~IsNaN(x) /\ x[1] = 0

\* comparisons: every comparison with NaN is False
FLt(x, y) == ~IsNaN(x) /\ ~IsNaN(y) /\ x[1] * y[2] < y[1] * x[2]

FGt(x, y) == FLt(y, x)

FGe(x, y) == ~IsNaN(x) /\ ~IsNaN(y) /\ x[1] * y[2] >= y[1] * x[2]

\* int(x): truncation toward zero (x is not NaN)
PyInt(x) == IF x[1] >= 0 THEN x[1] \div x[2] ELSE -((-x[1]) \div x[2])

(* ------------------------------ inputs -------------------------------- *)
Tickers == <<"A", "B">>

TickerSet == {Tickers[i] : i \in 1..Len(Tickers)}

\* latest closes a ticker can show: 0 (bad quote), the two prices of the
\* documented examples, a one-share-per-slot pair, and one above the slot
Prices == {R(0), Rat(495, 2), R(300), R(3000), R(3050), R(6000)}

\* the close a ticker showed in the earlier weeks of its history
OldPrice == R(500)

\* a weekly column: `lead` missing weeks (listed late), then OldPrice, and
\* `last` in the final week
Column(weeks, lead, last) ==
    [i \in 1..weeks |-> IF i <= lead THEN NaN
                        ELSE IF i = weeks THEN last ELSE OldPrice]

\* the columns a download can return for one ticker: the weekly closes and
\* the close of the last daily row.  A full history at every price; one
\* whose last daily row is not filled yet (NaN); one listed a week late.
Columns(weeks) ==
    { [weekly |-> Column(weeks, 0, last), close |-> last] : last \in Prices }
    \cup { [weekly |-> Column(weeks, 0, R(300)), close |-> NaN],
           [weekly |-> Column(weeks, 1, R(300)), close |-> R(300)] }

\* the price frames a download can return: any subset of the universe as
\* columns over LOOKBACK_WEEKS + 1 weekly rows, and frames one row short
Frames ==
    UNION { { [weeks |-> LOOKBACK_WEEKS + 1, col |-> f] :
                f \in [S -> Columns(LOOKBACK_WEEKS + 1)] } :
            S \in SUBSET TickerSet }
    \cup { [weeks |-> LOOKBACK_WEEKS,
            col |-> [t \in S |-> [weekly |-> Column(LOOKBACK_WEEKS, 0, R(300)),
                                  close |-> R(300)]]] :
            S \in SUBSET TickerSet }

\* four more names of the universe file, priced just under one slot: the
\* download always returns their full history, at one of two closes
SteadyTickers == <<"P", "Q", "R", "S">>

SteadyPrices == {R(4900), R(4950)}

AllTickers == Tickers \o SteadyTickers

ColumnsOf(ticker, weeks) ==
    IF ticker \in TickerSet THEN Columns(weeks)
    ELSE { [weekly |-> Column(weeks, 0, last), close |-> last] :
             last \in SteadyPrices }

\* the price frames a download can return for the universe U; for the
\* universe of Tickers these are Frames
FramesOf(U) ==
    UNION { { [weeks |-> LOOKBACK_WEEKS + 1, col |-> f] :
                f \in { g \in [S -> UNION {ColumnsOf(t, LOOKBACK_WEEKS + 1) : t \in S}] :
                          \A t \in S : g[t] \in ColumnsOf(t, LOOKBACK_WEEKS + 1) } } :
            S \in {T \in SUBSET U : U \ TickerSet \subseteq T} }
    \cup { d \in Frames : /\ d.weeks = LOOKBACK_WEEKS
                           /\ DOMAIN d.col \subseteq U
                           /\ U \ TickerSet \subseteq DOMAIN d.col }

\* the universe files the cycle is checked with
Universes == {Tickers, <<"A">>, SteadyTickers}

\* the frames a download can return, per universe file
frames == [U \in Universes |-> FramesOf({U[i] : i \in 1..Len(U)})]

NoData == [weeks |-> 0, col |-> <<>>]

\* index series: `n` sessions at `base` with the latest session at `last`
IndexSeries(n, base, last) ==
    [i \in 1..n |-> IF i = n THEN R(last) ELSE R(base)]

RegimeInputs ==
    { IndexSeries(n, 100, last) : n \in {REGIME_MA - 1, REGIME_MA, REGIME_MA + 1},
                                  last \in {99, 100, 101} }

CrashInputs ==
    { IndexSeries(n, 100, last) : n \in {CRASH_LOOKBACK - 1, CRASH_LOOKBACK},
                                  last \in {87, 88, 89, 100} }

\* index series for the filters on their own: `n` sessions at 100, but `ref`
\* at the session the crash filter compares with, and `last` at the latest
FilterSeries(n, ref, last) ==
    [i \in 1..n |-> IF i = n THEN last
                    ELSE IF i = n - CRASH_LOOKBACK + 1 THEN ref ELSE R(100)]

\* lengths around both lookbacks; a flat and a depressed reference; latest
\* closes around -12% of either reference and around either window mean
FilterInputs ==
    { FilterSeries(n, ref, last) :
        n \in {CRASH_LOOKBACK - 1, CRASH_LOOKBACK, CRASH_LOOKBACK + 1,
               REGIME_MA - 1, REGIME_MA, REGIME_MA + 1},
        ref \in {R(100), R(50)},
        last \in {R(44), R(45), R(87), R(88), R(89), R(99), R(100), R(101),
                  Rat(19850, 199)} }

(* --------------------------- MARKET FILTERS --------------------------- *)
\* the sum s[i] + ... + s[n], split in halves to keep the recursion shallow
RECURSIVE SumFrom(_, _, _)
SumFrom(s, i, n) ==
    IF i > n THEN R(0)
    ELSE IF i = n THEN s[i]
    ELSE LET mid == (i + n) \div 2
         IN  FAdd(SumFrom(s, i, mid), SumFrom(s, mid + 1, n))

\* index.rolling(REGIME_MA).mean().iloc[-1]
RollingMeanLast(index) ==
    FDiv(SumFrom(index, Len(index) - REGIME_MA + 1, Len(index)), R(REGIME_MA))

\* a regime test that also passes a close equal to the moving average
regime_filter_at_or_above(index) ==
    IF Len(index) < REGIME_MA THEN FALSE
    ELSE FGe(index[Len(index)], RollingMeanLast(index))

regime_filter(index) ==
    IF Len(index) < REGIME_MA THEN FALSE
    ELSE FGt(index[Len(index)], RollingMeanLast(index))

\* the engine proceeds when this is TRUE; FALSE is the crash signal
crash_filter(index) ==
    IF Len(index) < CRASH_LOOKBACK THEN TRUE
    ELSE LET ret_3m == FSub(FDiv(index[Len(index)],
                                 index[Len(index) - CRASH_LOOKBACK + 1]), R(1))
         IN  FGe(ret_3m, CRASH_THRESHOLD)

\* the verdicts of the two filters on the index series a download can return
regime_verdict == [index \in RegimeInputs |-> regime_filter(index)]

crash_verdict == [index \in CrashInputs |-> crash_filter(index)]

(* --------------------------- PORTFOLIO LOGIC -------------------------- *)
\* the columns of a frame, in universe order
ColumnList(d) == SelectSeq(AllTickers, LAMBDA t : t \in DOMAIN d.col)

\* weekly.pct_change(LOOKBACK_WEEKS).iloc[-1] of one column
PctChangeLast(w) ==
    IF Len(w) < LOOKBACK_WEEKS + 1 THEN NaN
    ELSE LET old == w[Len(w) - LOOKBACK_WEEKS]
         IN  IF IsNaN(old) \/ IsZero(old) THEN NaN
             ELSE FSub(FDiv(w[Len(w)], old), R(1))

NotNaCount(w) == Cardinality({i \in 1..Len(w) : ~IsNaN(w[i])})

\* sort_values(ascending=False): insertion keeps equal keys in input order
RECURSIVE InsertDesc(_, _, _)
InsertDesc(t, s, key) ==
    IF s = <<>> THEN <<t>>
    ELSE IF FGe(key[Head(s)], key[t]) THEN <<Head(s)>> \o InsertDesc(t, Tail(s), key)
    ELSE <<t>> \o s

RECURSIVE SortDesc(_, _)
SortDesc(s, key) ==
    IF s = <<>> THEN <<>>
    ELSE InsertDesc(s[Len(s)], SortDesc(SubSeq(s, 1, Len(s) - 1), key), key)

HeadN(s, n) == SubSeq(s, 1, IF Len(s) < n THEN Len(s) ELSE n)

\* momentum ranking shared by the two programs: latest trailing returns,
\* missing ones dropped, sorted descending, top TOP_N
Momentum(d, cols) ==
    LET ret == [t \in DOMAIN d.col |-> PctChangeLast(d.col[t].weekly)]
        latest == SelectSeq(cols, LAMBDA t : ~IsNaN(ret[t]))
    IN  HeadN(SortDesc(latest, ret), TOP_N)

generate_portfolio_engine(d) ==
    [fault |-> FALSE, selected |-> Momentum(d, ColumnList(d))]

generate_portfolio_pro(d) ==
    IF d.weeks < 12 + 1 THEN [fault |-> TRUE, selected |-> <<>>]
    ELSE LET valid_columns ==
                 SelectSeq(ColumnList(d),
                           LAMBDA t : NotNaCount(d.col[t].weekly) >= 13)
         IN  [fault |-> FALSE, selected |-> Momentum(d, valid_columns)]

(* --------------------------- position book --------------------------- *)
NoFile == [exists |-> FALSE, rows |-> <<>>]

NoFrame == [cols |-> FALSE, rows |-> <<>>]

\* df.to_csv(POSITIONS_FILE, index=False)
to_csv(df) == [exists |-> TRUE, rows |-> df.rows]

\* pd.read_csv of a file written by to_csv: the header gives the columns
read_csv(file) == [cols |-> TRUE, rows |-> file.rows]

\* engine: safe_read_csv gives a frame without columns when no file exists
load_positions_engine(file) ==
    IF file.exists THEN read_csv(file) ELSE NoFrame

\* pro: an empty frame with the four columns when no file exists
load_positions_pro(file) ==
    IF file.exists THEN read_csv(file) ELSE [cols |-> TRUE, rows |-> <<>>]

TickerList(rows) == [i \in 1..Len(rows) |-> rows[i].Ticker]

Range(s) == {s[i] : i \in 1..Len(s)}

\* a lookup that never finds the ticker
Existing_none(rows, ticker) == <<>>

\* positions[positions["Ticker"] == ticker]
Existing(rows, ticker) == SelectSeq(rows, LAMBDA r : r.Ticker = ticker)

(* ---------------------------- order engine ---------------------------- *)
Order(ticker, action, k, qty) ==
    [ticker |-> ticker, action |-> action, k |-> k, qty |-> qty]

\* a slot sized at the whole capital
base_allocation_undivided(capital) == R(capital)

base_allocation(capital) == FDiv(R(capital), R(TOP_N))

\* a sell test that liquidates every holding
NotSelected_always(ticker, sel) == TRUE

\* the test of the sell loops: ticker not in selected
NotSelected(ticker, sel) == ticker \notin Range(sel)

\* engine: one SELL_ALL per row of the book whose ticker is not selected;
\* the row stays in the frame
RECURSIVE sell_loop_engine(_, _)
sell_loop_engine(tickers, sel) ==
    IF tickers = <<>> THEN <<>>
    ELSE (IF NotSelected(Head(tickers), sel)
          THEN <<Order(Head(tickers), "SELL_ALL", 0, 0)>> ELSE <<>>)
         \o sell_loop_engine(Tail(tickers), sel)

\* pro: set(prev_portfolio) - set(selected)
sell_set_pro(rows, sel) == {t \in Range(TickerList(rows)) : NotSelected(t, sel)}

\* the orders in which list(set) can enumerate a set
Orderings(S) ==
    {s \in [1..Cardinality(S) -> S] : \A i, j \in DOMAIN s : i # j => s[i] # s[j]}

\* pro: one SELL_ALL per ticker of sell_list, and its rows leave the frame
RECURSIVE sell_loop_pro(_, _)
sell_loop_pro(sell_list, st) ==
    IF sell_list = <<>> THEN st
    ELSE sell_loop_pro(Tail(sell_list),
            [orders |-> Append(st.orders, Order(Head(sell_list), "SELL_ALL", 0, 0)),
             rows |-> SelectSeq(st.rows, LAMBDA r : r.Ticker # Head(sell_list))])

\* a pyramiding test that also adds at a price equal to the average cost
CanAdd_at_cost(adds, price, avg_cost, current_value, max_value) ==
    adds < MAX_ADDS /\ FGe(price, avg_cost) /\ FLt(current_value, max_value)

\* a pyramiding test that allows one addition too many
CanAdd_one_more(adds, price, avg_cost, current_value, max_value) ==
    adds <= MAX_ADDS /\ FGt(price, avg_cost) /\ FLt(current_value, max_value)

\* a pyramiding test without the exposure cap
CanAdd_uncapped(adds, price, avg_cost, current_value, max_value) ==
    adds < MAX_ADDS /\ FGt(price, avg_cost)

\* the pyramiding test: adds < MAX_ADDS and price > avg_cost and
\* current_value < max_value
CanAdd(adds, price, avg_cost, current_value, max_value) ==
    adds < MAX_ADDS /\ FGt(price, avg_cost) /\ FLt(current_value, max_value)

\* a quantity test that lets a zero quantity through
QtyOk_nonnegative(qty) == qty >= 0

\* the test before an order is appended: qty > 0
QtyOk(qty) == qty > 0

\* the cost basis as the plain average of the old average and the new price
new_avg_unweighted(shares, avg_cost, add_qty, price, new_shares) ==
    FDiv(FAdd(avg_cost, price), R(2))

new_avg(shares, avg_cost, add_qty, price, new_shares) ==
    FDiv(FAdd(FMul(R(shares), avg_cost), FMul(R(add_qty), price)), R(new_shares))

\* the position created by a BUY
NewRow(ticker, qty, price) ==
    [Ticker |-> ticker, Shares |-> qty, Avg_Cost |-> price, Adds |-> 0]

\* the body of the buy / pyramid loop for one selected ticker; st is
\* [orders, rows, fault]
BuyOne(ticker, st, price_data, base) ==
    IF ticker \notin DOMAIN price_data.col THEN st
    ELSE
      LET price == price_data.col[ticker].close
          existing == Existing(st.rows, ticker)
      IN
      IF existing = <<>> THEN
        \* base_allocation / price raises on 0, int() raises on NaN
        IF IsZero(price) THEN [st EXCEPT !.fault = "ZeroDivisionError"]
        ELSE IF IsNaN(price) THEN [st EXCEPT !.fault = "ValueError"]
        ELSE
          LET qty == PyInt(FDiv(base, price)) IN
          IF QtyOk(qty)
          THEN [st EXCEPT !.orders = Append(@, Order(ticker, "BUY", 0, qty)),
                          !.rows = Append(@, NewRow(ticker, qty, price))]
          ELSE st
      ELSE
        LET shares == existing[1].Shares
            avg_cost == existing[1].Avg_Cost
            adds == existing[1].Adds
            max_value == FMul(base, R(MAX_POSITION_MULTIPLIER))
            current_value == FMul(R(shares), price)
        IN
        IF CanAdd(adds, price, avg_cost, current_value, max_value) THEN
          IF IsZero(price) THEN [st EXCEPT !.fault = "ZeroDivisionError"]
          ELSE
            LET add_qty == PyInt(FDiv(base, price)) IN
            IF QtyOk(add_qty) THEN
              LET new_shares == shares + add_qty
                  avg == new_avg(shares, avg_cost, add_qty, price, new_shares)
              IN  [st EXCEPT
                     !.orders = Append(@, Order(ticker, "ADD", adds + 1, add_qty)),
                     !.rows = [i \in DOMAIN @ |->
                                 IF @[i].Ticker = ticker
                                 THEN [Ticker |-> ticker, Shares |-> new_shares,
                                       Avg_Cost |-> avg, Adds |-> adds + 1]
                                 ELSE @[i]]]
            ELSE st
        ELSE st

RECURSIVE buy_loop(_, _, _, _)
buy_loop(sel, st, price_data, base) ==
    IF sel = <<>> \/ st.fault # "none" THEN st
    ELSE buy_loop(Tail(sel), BuyOne(Head(sel), st, price_data, base),
                  price_data, base)

\* engine main: the equity summary over the rows whose ticker has a column
RECURSIVE equity_sum(_, _)
equity_sum(rows, price_data) ==
    IF rows = <<>> THEN R(0)
    ELSE FAdd(IF Head(rows).Ticker \in DOMAIN price_data.col
              THEN FMul(R(Head(rows).Shares), price_data.col[Head(rows).Ticker].close)
              ELSE R(0),
              equity_sum(Tail(rows), price_data))

(* ------------------------------- main --------------------------------- *)
Programs == {"engine", "pro"}

\* no download made yet in this cycle
NoFetch == [step \in {} |-> 0]

\* the downloads `seen` so far, and that of `step`, which reads the price
\* source as it is now
Download(seen, step) == [s \in DOMAIN seen \cup {step} |->
                           IF s = step THEN market ELSE seen[s]]

\* no series evaluated
NoVerdict == [regime_done |-> FALSE, bullish |-> FALSE,
              crash_done |-> FALSE, proceed |-> FALSE]

\* a ticker never bought, or sold since its last buy
Flat == [state |-> "flat", adds |-> 0]

InitOver(U, downloads) ==
    /\ prog \in Programs
    /\ pc = "idle"
    /\ result = "none"
    /\ positions_file \in {NoFile, to_csv([cols |-> TRUE, rows |-> <<>>])}
    /\ equity_file = 0
    /\ report_files = 0
    /\ data = NoData
    /\ selected = <<>>
    /\ positions = NoFrame
    /\ orders = <<>>
    /\ total_equity = R(0)
    /\ telegram = "none"
    /\ exception = "none"
    /\ wrote = {}
    /\ start = [positions_file |-> positions_file, equity_file |-> 0,
                report_files |-> 0]
    /\ universe = U
    /\ market = 0
    /\ fetched = NoFetch
    /\ series \in downloads
    /\ verdict = NoVerdict
    /\ life = [t \in Range(U) |-> Flat]

Init == InitOver(Tickers, {<<>>})

\* a gate that notifies and falls through instead of returning
GateExit_fallthrough == [pc |-> "rank", result |-> "cash"]

\* where main is after the `return` of a failed gate
GateExit == [pc |-> "done", result |-> "cash"]

\* an exception leaves main: its locals are gone
Abort(message, raised) ==
    /\ pc' = "done"
    /\ result' = "error"
    /\ telegram' = message
    /\ exception' = raised
    /\ orders' = <<>>
    /\ positions' = NoFrame

\* the process ends (main returned or an exception left it)
Exit ==
    /\ pc = "done"
    /\ pc' = "idle"
    /\ data' = NoData
    /\ selected' = <<>>
    /\ positions' = NoFrame
    /\ orders' = <<>>
    /\ total_equity' = R(0)
    /\ fetched' = NoFetch
    /\ UNCHANGED <<fixed, market, result, positions_file, equity_file,
                   report_files, telegram, exception, wrote, start>>

\* the scheduler starts main, which runs up to the download of the price frame
StartCycle ==
    /\ pc = "idle"
    /\ equity_file < MaxRuns
    /\ report_files < MaxRuns
    /\ \E d \in frames[universe] : data' = d
    /\ pc' = "regime"
    /\ result' = "none"
    /\ selected' = <<>>
    /\ positions' = NoFrame
    /\ orders' = <<>>
    /\ total_equity' = R(0)
    /\ telegram' = "none"
    /\ exception' = "none"
    /\ wrote' = {}
    /\ start' = [positions_file |-> positions_file, equity_file |-> equity_file,
                 report_files |-> report_files]
    /\ fetched' = Download(NoFetch, "data")
    /\ UNCHANGED <<fixed, market, positions_file, equity_file, report_files>>

RegimeGate ==
    /\ pc = "regime"
    /\ \E index \in RegimeInputs :
         IF regime_verdict[index]
         THEN /\ pc' = "crash"
              /\ UNCHANGED <<result, telegram>>
         ELSE /\ telegram' = "not_bullish"
              /\ pc' = GateExit.pc
              /\ result' = GateExit.result
    /\ fetched' = Download(fetched, "regime")
    /\ UNCHANGED <<fixed, market, positions_file, equity_file, report_files, data,
                   selected, positions, orders, total_equity, exception, wrote,
                   start>>

CrashGate ==
    /\ pc = "crash"
    /\ \E index \in CrashInputs :
         IF crash_verdict[index]
         THEN /\ pc' = "rank"
              /\ UNCHANGED <<result, telegram>>
         ELSE /\ telegram' = "crash"
              /\ pc' = GateExit.pc
              /\ result' = GateExit.result
    /\ fetched' = Download(fetched, "crash")
    /\ UNCHANGED <<fixed, market, positions_file, equity_file, report_files, data,
                   selected, positions, orders, total_equity, exception, wrote,
                   start>>

\* generate_portfolio; the manager catches its exception, notifies, re-raises
Rank ==
    /\ pc = "rank"
    /\ LET r == IF prog = "engine" THEN generate_portfolio_engine(data)
                ELSE generate_portfolio_pro(data)
       IN  IF r.fault
           THEN /\ Abort("engine_error", "Exception")
                /\ UNCHANGED selected
           ELSE /\ selected' = r.selected
                /\ pc' = "sell"
                /\ UNCHANGED <<result, telegram, exception, orders, positions>>
    /\ UNCHANGED <<fixed, market, fetched, positions_file, equity_file, report_files, data,
                   total_equity, wrote, start>>

\* generate_orders up to the end of the sell loop
SellEngine ==
    /\ pc = "sell"
    /\ prog = "engine"
    /\ LET loaded == load_positions_engine(positions_file) IN
       IF ~loaded.cols
       THEN \* positions["Ticker"] raises KeyError; nothing catches it
            Abort("none", "KeyError")
       ELSE /\ orders' = sell_loop_engine(TickerList(loaded.rows), selected)
            /\ positions' = loaded
            /\ pc' = "buy"
            /\ UNCHANGED <<result, telegram, exception>>
    /\ UNCHANGED <<fixed, market, fetched, positions_file, equity_file, report_files, data,
                   selected, total_equity, wrote, start>>

SellPro ==
    /\ pc = "sell"
    /\ prog = "pro"
    /\ LET loaded == load_positions_pro(positions_file) IN
       \E sell_list \in Orderings(sell_set_pro(loaded.rows, selected)) :
         LET st == sell_loop_pro(sell_list, [orders |-> <<>>, rows |-> loaded.rows])
         IN  /\ orders' = st.orders
             /\ positions' = [cols |-> TRUE, rows |-> st.rows]
    /\ pc' = "buy"
    /\ UNCHANGED <<fixed, market, fetched, result, telegram, exception, positions_file,
                   equity_file, report_files, data, selected, total_equity,
                   wrote, start>>

\* the buy / pyramid loop; the engine's generate_orders then saves the book
BuyStep ==
    /\ pc = "buy"
    /\ LET st == buy_loop(selected,
                          [orders |-> orders, rows |-> positions.rows,
                           fault |-> "none"],
                          data, base_allocation(CAPITAL))
       IN
       IF st.fault # "none"
       THEN /\ Abort(IF prog = "pro" THEN "engine_error" ELSE "none", st.fault)
            /\ UNCHANGED <<positions_file, wrote>>
       ELSE IF prog = "pro"
       THEN /\ orders' = st.orders
            /\ positions' = [cols |-> TRUE, rows |-> st.rows]
            /\ pc' = "report"
            /\ UNCHANGED <<result, telegram, exception, positions_file, wrote>>
       ELSE \E saved \in BOOLEAN :
              IF saved
              THEN /\ orders' = st.orders
                   /\ positions' = [cols |-> TRUE, rows |-> st.rows]
                   /\ positions_file' = to_csv([cols |-> TRUE, rows |-> st.rows])
                   /\ wrote' = wrote \cup {"positions"}
                   /\ pc' = "equity"
                   /\ UNCHANGED <<result, telegram, exception>>
              ELSE /\ Abort("none", "OSError")
                   /\ UNCHANGED <<positions_file, wrote>>
    /\ UNCHANGED <<fixed, market, fetched, equity_file, report_files, data, selected,
                   total_equity, start>>

\* engine: equity summary, save_equity, weekly update message
EquityStep ==
    /\ pc = "equity"
    /\ total_equity' = equity_sum(positions.rows, data)
    /\ \E saved \in BOOLEAN :
         IF saved
         THEN /\ equity_file' = equity_file + 1
              /\ wrote' = wrote \cup {"equity"}
              /\ telegram' = "update"
              /\ result' = "ok"
              /\ pc' = "done"
              /\ UNCHANGED <<orders, positions, exception>>
         ELSE /\ Abort("none", "OSError")
              /\ UNCHANGED <<equity_file, wrote>>
    /\ UNCHANGED <<fixed, market, fetched, positions_file, report_files, data, selected, start>>

\* pro: the order report
ReportStep ==
    /\ pc = "report"
    /\ IF orders # <<>>
       THEN \E saved \in BOOLEAN :
              IF saved
              THEN /\ report_files' = report_files + 1
                   /\ wrote' = wrote \cup {"report"}
                   /\ telegram' = "executed"
                   /\ pc' = "save"
                   /\ UNCHANGED <<result, orders, positions, exception>>
              ELSE /\ Abort("none", "OSError")
                   /\ UNCHANGED <<report_files, wrote>>
       ELSE /\ telegram' = "no_trades"
            /\ pc' = "save"
            /\ UNCHANGED <<result, orders, positions, exception, report_files,
                           wrote>>
    /\ UNCHANGED <<fixed, market, fetched, positions_file, equity_file, data, selected,
                   total_equity, start>>

\* pro: save_positions(positions)
SaveStep ==
    /\ pc = "save"
    /\ \E saved \in BOOLEAN :
         IF saved
         THEN /\ positions_file' = to_csv(positions)
              /\ wrote' = wrote \cup {"positions"}
              /\ result' = "ok"
              /\ pc' = "done"
              /\ UNCHANGED <<telegram, orders, positions, exception>>
         ELSE /\ Abort(telegram, "OSError")
              /\ UNCHANGED <<positions_file, wrote>>
    /\ UNCHANGED <<fixed, market, fetched, equity_file, report_files, data, selected,
                   total_equity, start>>

Next ==
    \/ StartCycle
    \/ RegimeGate
    \/ CrashGate
    \/ Rank
    \/ SellEngine
    \/ SellPro
    \/ BuyStep
    \/ EquityStep
    \/ ReportStep
    \/ SaveStep
    \/ Exit

Spec == Init /\ [][Next]_vars

(* ------------------------ a moving price source ----------------------- *)
\* the provider publishes new prices: later downloads read a new epoch
PriceTick ==
    /\ market < MaxTicks
    /\ market' = market + 1
    /\ UNCHANGED <<fixed, pc, result, positions_file, equity_file,
                   report_files, data, selected, positions, orders,
                   total_equity, telegram, exception, wrote, start, fetched>>

NextTick ==
    \/ Next
    \/ PriceTick

\* the cycle over a one-ticker universe with a price source that can move
\* while main runs
InitTick == InitOver(<<"A">>, {<<>>})

SpecTick == InitTick /\ [][NextTick]_vars

(* ------------------------- the order history -------------------------- *)
\* where one order takes the lifecycle of its ticker: BUY opens a flat one,
\* ADD_k follows adds = k - 1 of an open one, SELL_ALL closes an open one;
\* any other order is out of sequence
AfterOrder(l, order) ==
    IF l.state = "flat" /\ order.action = "BUY"
    THEN [state |-> "open", adds |-> 0]
    ELSE IF l.state = "open" /\ order.action = "ADD" /\ order.k = l.adds + 1
    THEN [state |-> "open", adds |-> order.k]
    ELSE IF l.state = "open" /\ order.action = "SELL_ALL"
    THEN Flat
    ELSE [state |-> "out_of_sequence", adds |-> 0]

RECURSIVE AfterOrders(_, _)
AfterOrders(l, ords) ==
    IF ords = <<>> THEN l
    ELSE AfterOrders([l EXCEPT ![Head(ords).ticker] = AfterOrder(@, Head(ords))],
                     Tail(ords))

\* the process ends; the orders of a successful cycle join the history
ExitLife ==
    /\ pc = "done"
    /\ life' = IF result = "ok" THEN AfterOrders(life, orders) ELSE life
    /\ pc' = "idle"
    /\ data' = NoData
    /\ selected' = <<>>
    /\ positions' = NoFrame
    /\ orders' = <<>>
    /\ total_equity' = R(0)
    /\ fetched' = NoFetch
    /\ UNCHANGED <<prog, universe, series, verdict, market, result,
                   positions_file, equity_file, report_files, telegram,
                   exception, wrote, start>>

NextLife ==
    \/ StartCycle
    \/ RegimeGate
    \/ CrashGate
    \/ Rank
    \/ SellEngine
    \/ SellPro
    \/ BuyStep
    \/ EquityStep
    \/ ReportStep
    \/ SaveStep
    \/ ExitLife

\* the order history is followed over a one-ticker universe
InitLife == InitOver(<<"A">>, {<<>>})

SpecLife == InitLife /\ [][NextLife]_vars

(* ----------------------- a four-name universe ------------------------ *)
\* the cycle over the universe of SteadyTickers
InitCash == InitOver(SteadyTickers, {<<>>})

SpecCash == InitCash /\ [][Next]_vars

(* ------------------------ the filters on their own -------------------- *)
\* regime_filter on the index series its download returned
RegimeEval ==
    /\ ~verdict.regime_done
    /\ verdict' = [verdict EXCEPT !.regime_done = TRUE,
                                  !.bullish = regime_filter(series)]
    /\ UNCHANGED <<prog, universe, series, pc, result, positions_file,
                   equity_file, report_files, data, selected, positions, orders,
                   total_equity, telegram, exception, wrote, start, market,
                   fetched, life>>

\* crash_filter on the index series its download returned
CrashEval ==
    /\ ~verdict.crash_done
    /\ verdict' = [verdict EXCEPT !.crash_done = TRUE,
                                  !.proceed = crash_filter(series)]
    /\ UNCHANGED <<prog, universe, series, pc, result, positions_file,
                   equity_file, report_files, data, selected, positions, orders,
                   total_equity, telegram, exception, wrote, start, market,
                   fetched, life>>

NextFilters ==
    \/ RegimeEval
    \/ CrashEval

InitFilters == InitOver(Tickers, FilterInputs)

SpecFilters == InitFilters /\ [][NextFilters]_vars

TypeOK ==
    /\ prog \in Programs
    /\ pc \in {"idle", "regime", "crash", "rank", "sell", "buy", "equity",
               "report", "save", "done"}
    /\ result \in {"none", "cash", "ok", "error"}
    /\ equity_file \in 0..MaxRuns
    /\ report_files \in 0..MaxRuns

(* ============================ properties ============================== *)
\* the book persisted when the cycle started, the candidate set, and the
\* book persisted now
PreRows == start.positions_file.rows

PreTickers == Range(TickerList(PreRows))

Candidates == Range(selected)

BookTickers == Range(TickerList(positions_file.rows))

OrdersOf(ticker, action) ==
    {i \in DOMAIN orders : orders[i].ticker = ticker /\ orders[i].action = action}

\* generate_orders has returned in this cycle and main has not failed since
EngineReturned ==
    \/ pc \in {"equity", "report", "save"}
    \/ pc = "done" /\ result = "ok"

CycleSucceeded == pc = "done" /\ result = "ok"

\* floor((CAPITAL / TOP_N) / price), for a price n/d > 0
SlotQuantity(price) == (CAPITAL * price[2]) \div (TOP_N * price[1])

HasPrice(ticker) ==
    /\ ticker \in DOMAIN data.col
    /\ ~IsNaN(data.col[ticker].close)

GateFailed == telegram \in {"not_bullish", "crash"}

\* C1: a cycle whose regime filter does not pass or whose crash monitor
\* signals a crash has ended in the "cash" outcome with no order emitted, the
\* persisted position book, the equity history and the order reports exactly
\* as they were when the cycle started, and nothing written.
C1_GateFailureLeavesNoTrace ==
    GateFailed =>
        /\ pc \in {"done", "idle"}
        /\ result = "cash"
        /\ orders = <<>>
        /\ wrote = {}
        /\ positions_file = start.positions_file
        /\ equity_file = start.equity_file
        /\ report_files = start.report_files

\* a crash signal ended a cycle that started with positions in the book
C1_Witness ==
    /\ pc = "done"
    /\ telegram = "crash"
    /\ result = "cash"
    /\ PreRows # <<>>

\* C2: after a successful cycle every ticker of the persisted book is a
\* candidate of that cycle, and every candidate missing from the book was
\* skipped: its price was unavailable or its buy quantity rounded to zero.
C2_BookWithinCandidates ==
    CycleSucceeded =>
        /\ BookTickers \subseteq Candidates
        /\ \A t \in Candidates \ BookTickers :
              \/ ~HasPrice(t)
              \/ SlotQuantity(data.col[t].close) <= 0

\* C3: once the sell loop of a cycle has run, the order list holds exactly
\* one SELL_ALL for each ticker of the pre-cycle book that is not a candidate
\* and none for any other ticker.
C3_SellAllExactlyForDropped ==
    (pc = "buy" \/ EngineReturned) =>
        \A t \in TickerSet :
            Cardinality(OrdersOf(t, "SELL_ALL")) =
                IF t \in PreTickers /\ t \notin Candidates THEN 1 ELSE 0

\* the sell loop ran over a book with one dropped and one retained holding
C3_Witness ==
    /\ pc = "buy"
    /\ \E t \in PreTickers \ Candidates : OrdersOf(t, "SELL_ALL") # {}
    /\ \E t \in PreTickers \cap Candidates : OrdersOf(t, "SELL_ALL") = {}

\* C4: a cycle started without a stored position book treats the book as
\* empty and never fails for the lack of it: the load raises nothing, and
\* when the cycle succeeds no SELL_ALL was emitted and the persisted book
\* holds exactly the candidates with an available price and a positive
\* quantity floor(base_allocation / price).
C4_FirstRunCompletes ==
    ~start.positions_file.exists =>
        /\ exception # "KeyError"
        /\ CycleSucceeded =>
              /\ \A t \in TickerSet : OrdersOf(t, "SELL_ALL") = {}
              /\ positions_file.exists
              /\ \A t \in Candidates :
                    (HasPrice(t) /\ SlotQuantity(data.col[t].close) > 0)
                        => t \in BookTickers

\* the row of a ticker in the book the cycle started from, and in the
\* working frame generate_orders returned
PreRow(ticker) == Existing(PreRows, ticker)[1]

PostRow(ticker) == Existing(positions.rows, ticker)[1]

Close(ticker) == data.col[ticker].close

\* shares * price < (CAPITAL / TOP_N) * MAX_POSITION_MULTIPLIER, in integers
BelowCap(shares, price) ==
    shares * price[1] * TOP_N < CAPITAL * MAX_POSITION_MULTIPLIER * price[2]

\* the four conditions of the pyramiding rule for a held, selected ticker
AddPermitted(ticker) ==
    /\ HasPrice(ticker)
    /\ PreRow(ticker).Adds < MAX_ADDS
    /\ FGt(Close(ticker), PreRow(ticker).Avg_Cost)
    /\ BelowCap(PreRow(ticker).Shares, Close(ticker))
    /\ SlotQuantity(Close(ticker)) > 0

\* C5: for a ticker held and still selected, one ADD_{adds+1} order is
\* emitted and the position mutated if and only if adds < MAX_ADDS, the price
\* is strictly above avg_cost, shares * price is strictly below
\* base_allocation * MAX_POSITION_MULTIPLIER and floor(base_allocation/price)
\* is positive; otherwise no ADD is emitted and the position keeps its state.
C5_AddIffPyramidingRule ==
    EngineReturned =>
        \A t \in PreTickers \cap Candidates :
            IF AddPermitted(t)
            THEN /\ Cardinality(OrdersOf(t, "ADD")) = 1
                 /\ \A i \in OrdersOf(t, "ADD") : orders[i].k = PreRow(t).Adds + 1
                 /\ PostRow(t) # PreRow(t)
            ELSE /\ OrdersOf(t, "ADD") = {}
                 /\ PostRow(t) = PreRow(t)

\* one holding was added to, another priced exactly at its cost was not
C5_Witness ==
    /\ CycleSucceeded
    /\ \E t \in PreTickers \cap Candidates : OrdersOf(t, "ADD") # {}
    /\ \E t \in PreTickers \cap Candidates :
          /\ HasPrice(t)
          /\ Close(t) = PreRow(t).Avg_Cost
          /\ PreRow(t).Adds < MAX_ADDS
          /\ BelowCap(PreRow(t).Shares, Close(t))
          /\ OrdersOf(t, "ADD") = {}

\* C6: every position of the persisted book and of the working frame has
\* 0 <= adds <= MAX_ADDS, and no order ADD_k has k > MAX_ADDS.
C6_AddsBounded ==
    /\ \A i \in DOMAIN positions_file.rows :
          positions_file.rows[i].Adds \in 0..MAX_ADDS
    /\ \A i \in DOMAIN positions.rows : positions.rows[i].Adds \in 0..MAX_ADDS
    /\ \A i \in DOMAIN orders :
          orders[i].action = "ADD" => orders[i].k \in 1..MAX_ADDS

\* a position at MAX_ADDS met every other condition of the rule and got no add
C6_Witness ==
    /\ CycleSucceeded
    /\ \E t \in PreTickers \cap Candidates :
          /\ PreRow(t).Adds = MAX_ADDS
          /\ HasPrice(t)
          /\ FGt(Close(t), PreRow(t).Avg_Cost)
          /\ BelowCap(PreRow(t).Shares, Close(t))
          /\ SlotQuantity(Close(t)) > 0
          /\ OrdersOf(t, "ADD") = {}

\* C7: no BUY or ADD_k order is ever emitted with a quantity <= 0.
C7_QuantitiesPositive ==
    \A i \in DOMAIN orders :
        orders[i].action \in {"BUY", "ADD"} => orders[i].qty > 0

\* a candidate priced above the slot, not held, was passed over without order
C7_Witness ==
    /\ CycleSucceeded
    /\ \E t \in Candidates \ PreTickers :
          /\ HasPrice(t)
          /\ FGt(Close(t), R(CAPITAL \div TOP_N))
          /\ \A i \in DOMAIN orders : orders[i].ticker # t

\* C8: for a candidate not held whose price is available, with
\* quantity = floor((CAPITAL / TOP_N) / price): when quantity > 0 exactly one
\* BUY of that quantity is emitted and the position {quantity, price, 0} is
\* created; when quantity <= 0 no order is emitted and no position created.
C8_BuySizing ==
    EngineReturned =>
        \A t \in Candidates \ PreTickers :
            (HasPrice(t) /\ Close(t)[1] > 0) =>
                IF SlotQuantity(Close(t)) > 0
                THEN /\ Cardinality(OrdersOf(t, "BUY")) = 1
                     /\ \A i \in DOMAIN orders :
                           orders[i].ticker = t =>
                               /\ orders[i].action = "BUY"
                               /\ orders[i].qty = SlotQuantity(Close(t))
                     /\ Existing(positions.rows, t) =
                           <<[Ticker |-> t, Shares |-> SlotQuantity(Close(t)),
                              Avg_Cost |-> Close(t), Adds |-> 0]>>
                ELSE /\ \A i \in DOMAIN orders : orders[i].ticker # t
                     /\ Existing(positions.rows, t) = <<>>

\* the documented example: a candidate at 247.50 gives BUY 20 and the
\* position {20, 247.50, 0}
C8_Witness ==
    /\ CycleSucceeded
    /\ \E t \in Candidates \ PreTickers :
          /\ Close(t) = <<495, 2>>
          /\ \E i \in OrdersOf(t, "BUY") : orders[i].qty = 20
          /\ Existing(positions_file.rows, t) =
                <<[Ticker |-> t, Shares |-> 20, Avg_Cost |-> <<495, 2>>,
                   Adds |-> 0]>>

\* the state an applied ADD leaves: shares and adds grown by the order, and
\* the total cost basis grown by exactly the add's notional
AddAccounting(t, i) ==
    /\ PostRow(t).Shares = PreRow(t).Shares + orders[i].qty
    /\ PostRow(t).Adds = PreRow(t).Adds + 1
    /\ FMul(R(PostRow(t).Shares), PostRow(t).Avg_Cost) =
          FAdd(FMul(R(PreRow(t).Shares), PreRow(t).Avg_Cost),
               FMul(R(orders[i].qty), Close(t)))

Unweighted(t) == FDiv(FAdd(PreRow(t).Avg_Cost, Close(t)), R(2))

\* C9 as stated: an applied ADD leaves new_shares = shares + add_quantity,
\* adds + 1 and the quantity-weighted average cost, and the new average is
\* never the unweighted average (avg_cost + price) / 2.
C9_NeverUnweighted ==
    EngineReturned =>
        \A t \in TickerSet : \A i \in OrdersOf(t, "ADD") :
            /\ AddAccounting(t, i)
            /\ PostRow(t).Avg_Cost # Unweighted(t)

\* C9 amended: an applied ADD leaves new_shares = shares + add_quantity,
\* adds + 1 and the quantity-weighted average cost; the new average differs
\* from the unweighted average whenever add_quantity differs from shares.
C9_WeightedAverage ==
    EngineReturned =>
        \A t \in TickerSet : \A i \in OrdersOf(t, "ADD") :
            /\ AddAccounting(t, i)
            /\ orders[i].qty # PreRow(t).Shares =>
                  PostRow(t).Avg_Cost # Unweighted(t)

\* the documented add: {20, 247.50, 0} at 300.00 takes ADD_1 of 16 shares
C9_Witness ==
    /\ CycleSucceeded
    /\ \E t \in TickerSet : \E i \in OrdersOf(t, "ADD") :
          /\ PreRow(t).Shares = 20
          /\ PreRow(t).Avg_Cost = <<495, 2>>
          /\ Close(t) = R(300)
          /\ orders[i].qty = 16
          /\ orders[i].k = 1
          /\ PostRow(t).Shares = 36
          /\ PostRow(t).Avg_Cost = <<1625, 6>>

\* C10: a cycle that ended in an error has left none of its durable outputs
\* (position book, order report, equity entry) written.
C10_AllOrNothing ==
    (pc = "done" /\ result = "error") => wrote = {}

\* C11: every download of a cycle (the price frame used by the ranking and
\* the order sizing, the regime filter's index series, the crash monitor's
\* index series) has read the same epoch of the price source.
C11_SingleSnapshot ==
    \A a, b \in DOMAIN fetched : fetched[a] = fetched[b]

\* the exceptions raised inside generate_portfolio / generate_orders
EngineFaults == {"ZeroDivisionError", "ValueError", "KeyError", "Exception"}

\* C12: a fault raised during ranking or order generation ends the cycle in
\* the error outcome, leaves the persisted position book exactly as it was
\* when the cycle started, and has been reported to the notification sink.
C12_FaultReported ==
    exception \in EngineFaults =>
        /\ result = "error"
        /\ positions_file = start.positions_file
        /\ telegram = "engine_error"

\* a frame column has enough history for the ranking: LOOKBACK_WEEKS + 1
\* weekly observations and a defined trailing return
Rankable(ticker) ==
    /\ data.weeks >= LOOKBACK_WEEKS + 1
    /\ \A i \in DOMAIN data.col[ticker].weekly : ~IsNaN(data.col[ticker].weekly[i])

\* C13: the ranker never fails for lack of history: no cycle ends with the
\* ranker's exception, and once the ranker has returned the candidates are
\* exactly the (at most TOP_N) instruments with enough history.
C13_RankerNeverFails ==
    /\ exception # "Exception"
    /\ (pc \in {"sell", "buy"} \/ EngineReturned) =>
          Candidates = {t \in DOMAIN data.col : Rankable(t)}

\* the close the crash filter compares the latest close with
Reference(index) == index[Len(index) - CRASH_LOOKBACK + 1]

Latest(index) == index[Len(index)]

\* latest / reference - 1 <= -12%, as 100 * latest <= 88 * reference
AtOrBelowThreshold(index) ==
    FGe(FMul(R(88), Reference(index)), FMul(R(100), Latest(index)))

\* C14: the crash monitor signals a crash exactly when the series has at
\* least CRASH_LOOKBACK sessions and its trailing return is at or below -12%,
\* a return of exactly -12% included; a shorter series gives no crash.
C14_CrashAtOrBelow ==
    verdict.crash_done =>
        (~verdict.proceed <=>
            (Len(series) >= CRASH_LOOKBACK /\ AtOrBelowThreshold(series)))

\* the sum over the distinct values v of a window of count(v) * (x - v)
RECURSIVE ExcessOver(_, _, _, _)
ExcessOver(values, index, window, x) ==
    IF values = {} THEN R(0)
    ELSE LET v == CHOOSE w \in values : TRUE
             count == Cardinality({i \in window : index[i] = v})
         IN  FAdd(FMul(R(count), FSub(x, v)),
                  ExcessOver(values \ {v}, index, window, x))

\* the latest close is above the mean of the last REGIME_MA closes: the
\* differences latest - close over that window sum to more than zero
AboveWindowMean(index) ==
    LET window == (Len(index) - REGIME_MA + 1)..Len(index)
    IN  FGt(ExcessOver({index[i] : i \in window}, index, window, Latest(index)),
            R(0))

\* C15: the regime filter returns false for every series shorter than
\* REGIME_MA, and otherwise true if and only if the latest close is strictly
\* greater than the mean of the last REGIME_MA closes.
C15_RegimeStrictlyAboveMean ==
    verdict.regime_done =>
        (verdict.bullish <=>
            (Len(series) >= REGIME_MA /\ AboveWindowMean(series)))

\* a full window whose latest close equals its mean, which is not the level
\* of the other sessions, was judged not bullish
C15_Witness ==
    /\ verdict.regime_done
    /\ Len(series) >= REGIME_MA
    /\ Latest(series) = RollingMeanLast(series)
    /\ Latest(series) # R(100)
    /\ ~verdict.bullish

\* C16: from an empty book, over the successful cycles the orders of one
\* ticker follow the position lifecycle: BUY first, ADD_1 only after BUY and
\* ADD_2 only after ADD_1, SELL_ALL only while the position is open, and
\* after SELL_ALL nothing but a BUY; and the book holds an open position
\* with the adds the orders gave it, a fresh one (adds = 0) after a BUY.
C16_OrderLifecycle ==
    pc = "idle" =>
        \A t \in DOMAIN life :
            /\ life[t].state # "out_of_sequence"
            /\ life[t].state = "open" =>
                  /\ Existing(positions_file.rows, t) # <<>>
                  /\ Existing(positions_file.rows, t)[1].Adds = life[t].adds

\* the orders of this cycle for one ticker
OrdersFor(ticker) == {i \in DOMAIN orders : orders[i].ticker = ticker}

\* C17: after a successful cycle a ticker's entry in the persisted book
\* differs from its entry in the pre-cycle book (created, changed or removed)
\* if and only if exactly one order for that ticker was emitted; a position
\* without an order keeps its shares, avg_cost and adds.
C17_OrdersMatchBook ==
    CycleSucceeded =>
        \A t \in TickerSet :
            (Existing(positions_file.rows, t) # Existing(PreRows, t))
                <=> Cardinality(OrdersFor(t)) = 1

\* every row has a positive whole number of shares and a positive average
\* cost, and no two rows carry the same ticker
WellFormedBook(rows) ==
    /\ \A i \in DOMAIN rows :
          /\ rows[i].Shares \in Nat \ {0}
          /\ FGt(rows[i].Avg_Cost, R(0))
    /\ \A i, j \in DOMAIN rows : rows[i].Ticker = rows[j].Ticker => i = j

\* C18: from an empty book, after any sequence of cycles every position of
\* the persisted book and of the working frame has integer shares > 0 and
\* avg_cost > 0, and no ticker appears more than once.
C18_BookWellFormed ==
    /\ WellFormedBook(positions_file.rows)
    /\ WellFormedBook(positions.rows)

\* the persisted book holds two positions: one created at its price, one
\* pyramided to MAX_ADDS
C18_Witness ==
    /\ CycleSucceeded
    /\ Len(positions_file.rows) = 2
    /\ \E i \in DOMAIN positions_file.rows : positions_file.rows[i].Adds = 0
    /\ \E i \in DOMAIN positions_file.rows :
          positions_file.rows[i].Adds = MAX_ADDS

\* base_allocation * MAX_POSITION_MULTIPLIER
ExposureCap == FMul(base_allocation(CAPITAL), R(MAX_POSITION_MULTIPLIER))

\* the value of a ticker's position at this cycle's price, before and after
\* generate_orders
ValueBefore(t) == FMul(R(PreRow(t).Shares), Close(t))

ValueAfter(t) == FMul(R(PostRow(t).Shares), Close(t))

\* C19 as stated: a position that received an ADD has, right after the add
\* and at that cycle's price, a value new_shares * price that does not exceed
\* base_allocation * MAX_POSITION_MULTIPLIER.
C19_PostAddWithinCap ==
    EngineReturned =>
        \A t \in TickerSet :
            OrdersOf(t, "ADD") # {} => FGe(ExposureCap, ValueAfter(t))

\* C19 amended: a position that received an ADD had, before the add and at
\* that cycle's price, a value strictly below base_allocation *
\* MAX_POSITION_MULTIPLIER, and has after the add a value strictly below
\* base_allocation * (MAX_POSITION_MULTIPLIER + 1).
C19_PreAddBelowCap ==
    EngineReturned =>
        \A t \in TickerSet :
            OrdersOf(t, "ADD") # {} =>
                /\ FLt(ValueBefore(t), ExposureCap)
                /\ FLt(ValueAfter(t), FAdd(ExposureCap, base_allocation(CAPITAL)))

\* the documented add: 20 shares at 300 are worth 6000, below the cap of
\* 10000; ADD_1 of 16 takes the position to 36 shares worth 10800, above it
C19_Witness ==
    /\ CycleSucceeded
    /\ \E t \in TickerSet :
          /\ OrdersOf(t, "ADD") # {}
          /\ ValueBefore(t) = R(6000)
          /\ ValueAfter(t) = R(10800)
          /\ FGt(ValueAfter(t), ExposureCap)

\* sum(shares * avg_cost) over the rows of a book
RECURSIVE CostBasis(_)
CostBasis(rows) ==
    IF rows = <<>> THEN R(0)
    ELSE FAdd(FMul(R(Head(rows).Shares), Head(rows).Avg_Cost),
              CostBasis(Tail(rows)))

\* C20: from an empty book, after any sequence of successful cycles with at
\* most TOP_N candidates, the total cost basis of the persisted positions,
\* sum(shares * avg_cost), does not exceed CAPITAL.
C20_CashNonNegative ==
    (CycleSucceeded /\ Len(selected) <= TOP_N) =>
        FGe(R(CAPITAL), CostBasis(positions_file.rows))

====
